---------------------------- MODULE Spec2Model ----------------------------
(***************************************************************************)
(* Model of the shape-broadcasting stackers of wavestate.utilities.np:     *)
(* broadcast_shapes, vector_stack, matrix_stack and matrix_stack_id.       *)
(*                                                                         *)
(* One behaviour of the model is one call.  Init draws the call (function, *)
(* argument, dtype keyword) from bounded sets; the actions are the steps   *)
(* of the called function, in the order of its statements.                 *)
(*                                                                         *)
(* Arrays are records [shape, dtype, data]: shape a tuple of sizes, dtype  *)
(* one of "int", "float", "complex", data a function from the 0-based      *)
(* index tuples of the shape to cell values.  A cell value is [re, im],    *)
(* both counted in halves, so that 1.5 is re = 3: an integer cell has an   *)
(* even re and im = 0, a floating cell has im = 0.  A Python scalar in the *)
(* argument is the record [py |-> v].                                      *)
(***************************************************************************)
EXTENDS Integers, Sequences, FiniteSets, TLC

(* ------------------------------ bounds -------------------------------- *)

\* longest list handed to broadcast_shapes / vector_stack
MaxLen == 65
\* most rows of a matrix_stack argument
MaxRows == 3
\* most columns of the first row of a matrix_stack argument
MaxCols == 3
\* most diagonal entries handed to matrix_stack_id
MaxDiag == 8

(* ------------------------- program constants -------------------------- *)

\* np.py:440, 442: operands taken when bc is not passed
Window == 32
\* np.py:444, 447: operands taken beside bc
WindowRest == 31

(* ------------------------------ helpers ------------------------------- *)

Min(a, b) == IF a < b THEN a ELSE b

Max(a, b) == IF a > b THEN a ELSE b

\* the value None of a variable that otherwise holds a shape: no shape has
\* a negative size
None == <<-1>>

\* the slice that loses its last element
SliceShort(s, a, b) == SubSeq(s, a + 1, Min(b, Len(s)) - 1)

\* s[a:b] of Python on a 1-based sequence: the elements a+1 .. min(b, len)
Slice(s, a, b) == SubSeq(s, a + 1, Min(b, Len(s)))

\* the 0-based index tuples of an array of shape s
RECURSIVE Indices(_)
Indices(s) ==
    IF s = <<>> THEN {<<>>}
    ELSE {Append(t, k) : t \in Indices(SubSeq(s, 1, Len(s) - 1)),
                         k \in 0 .. (s[Len(s)] - 1)}

\* row-major position of index tuple t in an array of shape s
RECURSIVE Flat(_, _)
Flat(s, t) ==
    IF s = <<>> THEN 0
    ELSE Flat(SubSeq(s, 1, Len(s) - 1), SubSeq(t, 1, Len(t) - 1)) * s[Len(s)]
         + t[Len(t)]

(* ------------------------------ dtypes -------------------------------- *)

DTypes == {"int", "float", "complex"}

\* position in the promotion lattice: integer < floating < complex
Rank(d) == CASE d = "int" -> 1 [] d = "float" -> 2 [] d = "complex" -> 3

\* assignment into an array of dtype d: what the cell holds afterwards
Cast(v, d) ==
    CASE d = "complex" -> v
      [] d = "float"   -> [re |-> v.re, im |-> 0]
      [] d = "int"     -> [re |-> v.re - (v.re % 2), im |-> 0]

(* ------------------------------ arrays -------------------------------- *)

IsPy(x) == "py" \in DOMAIN x

\* np.asarray: a Python integer becomes a 0-d integer array, an array is
\* returned as it is
AsArray(x) ==
    IF IsPy(x)
    THEN [shape |-> <<>>, dtype |-> "int",
          data |-> [t \in {<<>>} |-> [re |-> 2 * x.py, im |-> 0]]]
    ELSE x

\* index into an array of shape s that broadcasting maps index t of the
\* broadcast shape to: right-aligned, a size-1 axis always reads index 0
Project(s, t) ==
    [k \in 1 .. Len(s) |->
        IF s[k] = 1 THEN 0 ELSE t[Len(t) - Len(s) + k]]

\* np.broadcast_shapes(*shapes): the shapes right-aligned; at each position
\* the sizes other than 1 must agree.  [ok, shape]; no operand gives ().
NpBroadcastShapes(shapes) ==
    LET n == Len(shapes)
        rank == IF n = 0 THEN 0
                ELSE CHOOSE r \in {Len(shapes[i]) : i \in 1 .. n} :
                        \A i \in 1 .. n : Len(shapes[i]) <= r
        \* sizes at the k-th position from the right
        sizes(k) == {shapes[i][Len(shapes[i]) - k + 1] :
                        i \in {j \in 1 .. n : Len(shapes[j]) >= k}}
        wide(k) == sizes(k) \ {1}
        ok == \A k \in 1 .. rank : Cardinality(wide(k)) <= 1
    IN  IF ok
        THEN [ok |-> TRUE,
              shape |-> [p \in 1 .. rank |->
                            LET k == rank - p + 1
                            IN  IF wide(k) = {} THEN 1
                                ELSE CHOOSE d \in wide(k) : TRUE]]
        ELSE [ok |-> FALSE, shape |-> None]

\* np.result_type(*vals): the widest dtype of the operands
ResultType(vals) ==
    CHOOSE d \in {vals[i].dtype : i \in 1 .. Len(vals)} :
        \A i \in 1 .. Len(vals) : Rank(vals[i].dtype) <= Rank(d)


(* ------------------------------ inputs -------------------------------- *)

\* cell number n of an array of dtype d
CellOf(d, n) ==
    CASE d = "int"     -> [re |-> 2 * n, im |-> 0]
      [] d = "float"   -> [re |-> 2 * n + 1, im |-> 0]
      [] d = "complex" -> [re |-> 2 * n + 1, im |-> 2 * n + 1]

\* an array whose cells are numbered from base in row-major order
Arr(shape, d, base) ==
    [shape |-> shape, dtype |-> d,
     data |-> [t \in Indices(shape) |-> CellOf(d, base + Flat(shape, t))]]

PyZero == [py |-> 0]

\* what fills most slots of an argument
BgItems == {PyZero, Arr(<<1>>, "int", 10), Arr(<<2>>, "int", 20)}

\* what the probed slots of an argument hold
Items ==
    BgItems \cup {[py |-> 4], Arr(<<>>, "float", 30), Arr(<<3>>, "complex", 40),
                  Arr(<<2, 1>>, "float", 50)}

\* the dtype keyword; "None" is the default
DTypeArgs == {"None", "int", "float"}

\* list lengths of the stackers' arguments: short lists, and the lengths
\* around each window's end
Lens ==
    (0 .. 3) \cup (Window - 1 .. Window + 1)
        \cup (Window + WindowRest - 1 .. MaxLen)

\* slots that hold a probed item: the first and last slot of each window
Probes ==
    {1, 2, Window, Window + 1, Window + WindowRest, Window + WindowRest + 1,
     2 * Window, 2 * Window + 1}

\* a list of n items: bg everywhere but ep at slot p and eq at slot q
List(n, bg, p, ep, q, eq) ==
    [i \in 1 .. n |-> IF i = p THEN ep ELSE IF i = q THEN eq ELSE bg]

Lists(lens) ==
    {List(n, bg, p, ep, q, eq) :
        n \in lens, bg \in BgItems, p \in Probes, q \in Probes,
        ep \in Items, eq \in Items}

\* rows of a matrix argument: r rows of c items, ep in the first slot and eq
\* in the last; row rag (when not 0) has raglen items instead
Rows(r, c, bg, ep, eq, rag, raglen) ==
    [i \in 1 .. r |->
        [j \in 1 .. (IF i = rag THEN raglen ELSE c) |->
            IF i = 1 /\ j = 1 THEN ep
            ELSE IF i = r /\ j = c THEN eq ELSE bg]]

Matrices ==
    {Rows(r, c, bg, ep, eq, rag, raglen) :
        r \in 0 .. MaxRows, c \in 0 .. MaxCols, bg \in BgItems,
        ep \in Items, eq \in Items, rag \in {0} \cup (2 .. MaxRows),
        raglen \in 0 .. MaxCols + 1}

Diagonals ==
    {List(n, bg, 1, ep, n, eq) :
        n \in 0 .. MaxDiag, bg \in BgItems, ep \in Items, eq \in Items}

(* ------------------------------- state -------------------------------- *)

VARIABLES
    fn,      \* the function called
    arg,     \* its positional argument
    kwdtype, \* its dtype keyword
    pc,      \* the statement the call is at
    arr,     \* matrix_stack / vector_stack: arr
    Nrows,   \* matrix_stack / vector_stack: Nrows
    Ncols,   \* matrix_stack: Ncols
    vals,    \* matrix_stack / vector_stack: vals
    dtype,   \* matrix_stack / vector_stack: dtype after line 361 / 406
    mlist,   \* broadcast_shapes: mlist
    idx,     \* broadcast_shapes: idx
    bc,      \* broadcast_shapes: bc, and the caller's bc once it returned
    calls,   \* the calls of np.broadcast_shapes made so far
    trace,   \* the steps executed so far
    Marr,    \* matrix_stack / vector_stack: Marr
    result,  \* the value returned
    err      \* the exception raised

vars ==
    <<fn, arg, kwdtype, pc, arr, Nrows, Ncols, vals, dtype, mlist, idx, bc,
      calls, trace, Marr, result, err>>

NoArray == [kind |-> "none"]

Frame(f, a, d, at) ==
    /\ fn = f
    /\ arg = a
    /\ kwdtype = d
    /\ pc = at
    /\ arr = IF f \in {"matrix_stack", "vector_stack"} THEN a ELSE <<>>
    /\ Nrows = 0
    /\ Ncols = 0
    /\ vals = <<>>
    /\ dtype = d
    /\ mlist = IF f = "broadcast_shapes" THEN a ELSE <<>>
    /\ idx = 0
    /\ bc = None
    /\ calls = <<>>
    /\ trace = <<>>
    /\ Marr = NoArray
    /\ result = NoArray
    /\ err = "none"

Init ==
    \/ \E a \in Lists(0 .. MaxLen) :
          Frame("broadcast_shapes", [i \in 1 .. Len(a) |-> AsArray(a[i])],
                "None", "bc_init")
    \/ \E a \in Lists(Lens), d \in DTypeArgs :
          Frame("vector_stack", a, d, "convert")
    \/ \E a \in Matrices, d \in DTypeArgs :
          Frame("matrix_stack", a, d, "convert")
    \/ \E a \in Diagonals, d \in DTypeArgs :
          Frame("matrix_stack_id", a, d, "build")


(* ----------------------------- exceptions ----------------------------- *)

\* the call ends with exception e; nothing is returned
Raise(e) ==
    /\ pc' = "raised"
    /\ err' = e
    /\ result' = NoArray

(* -------------------------- matrix_stack_id --------------------------- *)

\* the rows with the items on the anti-diagonal
IdRowsAnti(a) ==
    [i \in 1 .. Len(a) |->
        [j \in 1 .. Len(a) |-> IF j = Len(a) - i + 1 THEN a[i] ELSE PyZero]]

\* np.py:452-456: row i holds a[i] at column i and the literal 0 elsewhere
IdRows(a) ==
    [i \in 1 .. Len(a) |->
        [j \in 1 .. Len(a) |-> IF j = i THEN a[i] ELSE PyZero]]

\* np.py:451-457: build arrs and call matrix_stack(arrs, **kwargs)
MatrixStackId ==
    /\ pc = "build"
    /\ arr' = IdRows(arg)
    /\ pc' = "convert"
    /\ trace' = Append(trace, "matrix_stack_id")
    /\ UNCHANGED <<fn, arg, kwdtype, Nrows, Ncols, vals, dtype, mlist, idx,
                   bc, calls, Marr, result, err>>

(* --------------------- matrix_stack: lines 349-358 -------------------- *)

\* the rows of a, one after the other
RECURSIVE Flatten(_)
Flatten(a) ==
    IF a = <<>> THEN <<>>
    ELSE Flatten(SubSeq(a, 1, Len(a) - 1)) \o a[Len(a)]

\* the check that only notices a row shorter than the first
FirstRaggedShorter(a, ncols) ==
    IF \E i \in 1 .. Len(a) : Len(a[i]) < ncols
    THEN CHOOSE i \in 1 .. Len(a) :
            /\ Len(a[i]) < ncols
            /\ \A k \in 1 .. i - 1 : Len(a[k]) >= ncols
    ELSE 0

\* the first row the assert of line 354 fails on, 0 when there is none
FirstRagged(a, ncols) ==
    IF \E i \in 1 .. Len(a) : Len(a[i]) # ncols
    THEN CHOOSE i \in 1 .. Len(a) :
            /\ Len(a[i]) # ncols
            /\ \A k \in 1 .. i - 1 : Len(a[k]) = ncols
    ELSE 0

\* np.asarray of each item of a list
Converted(l) == [i \in 1 .. Len(l) |-> AsArray(l[i])]

\* np.py:349-358: Nrows, Ncols, and the loop that checks each row's length
\* and converts its items
MatrixConvert ==
    /\ pc = "convert"
    /\ fn \in {"matrix_stack", "matrix_stack_id"}
    /\ trace' = Append(trace, "convert")
    /\ Nrows' = Len(arr)
    /\ IF Len(arr) = 0
       THEN \* arr[0] of an empty list
            /\ Raise("IndexError")
            /\ UNCHANGED <<Ncols, vals>>
       ELSE LET ncols == Len(arr[1])
                bad == FirstRagged(arr, ncols)
            IN  /\ Ncols' = ncols
                /\ IF bad # 0
                   THEN /\ vals' = Converted(Flatten(SubSeq(arr, 1, bad - 1)))
                        /\ Raise("AssertionError")
                   ELSE /\ vals' = Converted(Flatten(arr))
                        /\ pc' = "promote"
                        /\ UNCHANGED <<err, result>>
    /\ UNCHANGED <<fn, arg, kwdtype, arr, dtype, mlist, idx, bc, calls, Marr>>

(* --------------------- vector_stack: lines 397-403 -------------------- *)

VectorConvert ==
    /\ pc = "convert"
    /\ fn = "vector_stack"
    /\ trace' = Append(trace, "convert")
    /\ Nrows' = Len(arr)
    /\ vals' = Converted(arr)
    /\ pc' = "promote"
    /\ UNCHANGED <<fn, arg, kwdtype, arr, Ncols, dtype, mlist, idx, bc, calls,
                   Marr, result, err>>

(* ------------- lines 360-362 / 405-407: dtype, then the call ---------- *)

\* np.py:360-361, 405-406: the dtype keyword when given, else
\* np.result_type(*vals), which raises on no operand
Promote ==
    /\ pc = "promote"
    /\ IF dtype = "None"
       THEN /\ trace' = Append(trace, "result_type")
            /\ IF Len(vals) = 0
               THEN /\ Raise("ValueError: result_type")
                    /\ UNCHANGED dtype
               ELSE /\ dtype' = ResultType(vals)
                    /\ pc' = "bc_call"
                    /\ UNCHANGED <<err, result>>
       ELSE /\ pc' = "bc_call"
            /\ UNCHANGED <<dtype, trace, err, result>>
    /\ UNCHANGED <<fn, arg, kwdtype, arr, Nrows, Ncols, vals, mlist, idx, bc,
                   calls, Marr>>

\* np.py:362, 407: bc = broadcast_shapes(vals)
CallBroadcastShapes ==
    /\ pc = "bc_call"
    /\ mlist' = vals
    /\ pc' = "bc_init"
    /\ UNCHANGED <<fn, arg, kwdtype, arr, Nrows, Ncols, vals, dtype, idx, bc,
                   calls, trace, Marr, result, err>>

(* -------------------------- broadcast_shapes -------------------------- *)

\* the loop that starts from the empty shape instead of None
BcInitEmptyShape ==
    /\ pc = "bc_init"
    /\ idx' = 0
    /\ bc' = <<>>
    /\ pc' = "bc_loop"
    /\ trace' = Append(trace, "broadcast_shapes")
    /\ UNCHANGED <<fn, arg, kwdtype, arr, Nrows, Ncols, vals, dtype, mlist,
                   calls, Marr, result, err>>

\* np.py:436-437
BcInit ==
    /\ pc = "bc_init"
    /\ idx' = 0
    /\ bc' = None
    /\ pc' = "bc_loop"
    /\ trace' = Append(trace, "broadcast_shapes")
    /\ UNCHANGED <<fn, arg, kwdtype, arr, Nrows, Ncols, vals, dtype, mlist,
                   calls, Marr, result, err>>

\* np.py:441: the operands when bc is not passed
FirstOperands(b, v) == [i \in 1 .. Len(v) |-> v[i].shape]

\* the later windows broadcast on their own, the running shape dropped
RestOperandsWithoutBc(b, v) == [i \in 1 .. Len(v) |-> v[i].shape]

\* np.py:446: the operands when bc is passed
RestOperands(b, v) == <<b>> \o [i \in 1 .. Len(v) |-> v[i].shape]

\* one pass of the loop body: the window of `width` items from idx, the call
\* of np.broadcast_shapes on `operands`, and the step of idx
Iteration(width, operands, withBc) ==
    LET v == Slice(mlist, idx, idx + width)
        r == NpBroadcastShapes(operands)
    IN  /\ calls' = Append(calls, [idx |-> idx, taken |-> Len(v),
                                   withBc |-> withBc, bc |-> bc,
                                   nargs |-> Len(operands),
                                   next |-> idx + width])
        /\ IF r.ok
           THEN /\ bc' = r.shape
                /\ idx' = idx + width
                /\ UNCHANGED <<pc, err, result>>
           ELSE /\ Raise("ValueError: shape mismatch")
                /\ UNCHANGED <<bc, idx>>
        /\ UNCHANGED <<fn, arg, kwdtype, arr, Nrows, Ncols, vals, dtype,
                       mlist, trace, Marr>>

\* np.py:439-442
BcFirst ==
    /\ pc = "bc_loop"
    /\ idx < Len(mlist)
    /\ (idx = 0 \/ bc = <<>>)
    /\ Iteration(Window,
                 FirstOperands(bc, Slice(mlist, idx, idx + Window)), FALSE)

\* the later pass that takes a full window beside bc
BcRestFullWindow ==
    /\ pc = "bc_loop"
    /\ idx < Len(mlist)
    /\ ~(idx = 0 \/ bc = <<>>)
    /\ Iteration(Window,
                 RestOperands(bc, Slice(mlist, idx, idx + Window)), TRUE)

\* np.py:443-447
BcRest ==
    /\ pc = "bc_loop"
    /\ idx < Len(mlist)
    /\ ~(idx = 0 \/ bc = <<>>)
    /\ Iteration(WindowRest,
                 RestOperands(bc, Slice(mlist, idx, idx + WindowRest)), TRUE)

\* np.py:438, 448: the loop ends and bc is returned, to the caller of the
\* model's call or to the stacker at line 362 / 407
BcReturn ==
    /\ pc = "bc_loop"
    /\ idx >= Len(mlist)
    /\ IF fn = "broadcast_shapes"
       THEN /\ pc' = "returned"
            /\ result' = [kind |-> "shape", shape |-> bc]
       ELSE /\ pc' = "shortcut"
            /\ UNCHANGED result
    /\ UNCHANGED <<fn, arg, kwdtype, arr, Nrows, Ncols, vals, dtype, mlist,
                   idx, bc, calls, trace, Marr, err>>


(* ------------- lines 364-372 / 409-416: the output array -------------- *)

\* the trailing, structural axes of the output
Structural == IF fn = "vector_stack" THEN <<Nrows>> ELSE <<Nrows, Ncols>>

\* the item of container a (a list, or a list of rows) that the structural
\* part s of an index names
ItemAt(a, s) == IF Len(s) = 1 THEN a[s[1] + 1] ELSE a[s[1] + 1][s[2] + 1]

\* the leading n entries of index tuple t, and the rest
Leading(t, n) == SubSeq(t, 1, n)

Trailing(t, n) == SubSeq(t, n + 1, Len(t))

\* the cell of array x that broadcasting x into a wider shape reads at index t
BroadcastAt(x, t) == x.data[Project(x.shape, t)]

\* the shortcut that keeps a singleton leading axis
NpArrayLeadingAxis(a, structural) ==
    LET items == IF Len(structural) = 1 THEN a ELSE Flatten(a)
        d == ResultType(Converted(items))
    IN  [kind |-> "array", shape |-> <<1>> \o structural, dtype |-> d,
         data |-> [t \in Indices(<<1>> \o structural) |->
                      Cast(AsArray(ItemAt(a, Trailing(t, 1))).data[<<>>], d)]]

\* np.array(a) of a list, or a list of rows, of scalars: the plain array of
\* their values, of their common type; structural is its shape
NpArray(a, structural) ==
    LET items == IF Len(structural) = 1 THEN a ELSE Flatten(a)
        \* an empty list gives numpy's default floating type
        d == IF Len(items) = 0 THEN "float" ELSE ResultType(Converted(items))
    IN  [kind |-> "array", shape |-> structural, dtype |-> d,
         data |-> [t \in Indices(structural) |->
                      Cast(AsArray(ItemAt(a, t)).data[<<>>], d)]]

\* np.py:364-365, 409-410: len(bc) fails on None; every item a scalar
\* returns np.array(arr)
Shortcut ==
    /\ pc = "shortcut"
    /\ IF bc = None
       THEN /\ Raise("TypeError")
            /\ UNCHANGED trace
       ELSE IF Len(bc) = 0
       THEN /\ pc' = "returned"
            /\ result' = NpArray(arr, Structural)
            /\ trace' = Append(trace, "np.array")
            /\ UNCHANGED err
       ELSE /\ pc' = "alloc"
            /\ UNCHANGED <<result, err, trace>>
    /\ UNCHANGED <<fn, arg, kwdtype, arr, Nrows, Ncols, vals, dtype, mlist,
                   idx, bc, calls, Marr>>

\* what a cell of np.empty holds until it is assigned
Unwritten == [re |-> -1, im |-> -1]

\* np.py:367, 412: np.empty(bc + structural, dtype)
NpEmpty(shape, d) ==
    [kind |-> "array", shape |-> shape, dtype |-> d,
     data |-> [t \in Indices(shape) |-> Unwritten]]

Alloc ==
    /\ pc = "alloc"
    /\ Marr' = NpEmpty(bc \o Structural, dtype)
    /\ pc' = "fill"
    /\ trace' = Append(trace, "np.empty")
    /\ UNCHANGED <<fn, arg, kwdtype, arr, Nrows, Ncols, vals, dtype, mlist,
                   idx, bc, calls, result, err>>

\* the assignment that copies the item's first cell instead of broadcasting
AssignedFirstCell(a, n, t, d) ==
    LET x == AsArray(ItemAt(a, Trailing(t, n)))
    IN  Cast(x.data[[k \in 1 .. Len(x.shape) |-> 0]], d)

\* np.py:371, 415: the cell that Marr[..., r_idx, c_idx] = kdm leaves at
\* index t of an output with n leading axes and dtype d
Assigned(a, n, t, d) ==
    Cast(BroadcastAt(AsArray(ItemAt(a, Trailing(t, n))), Leading(t, n)), d)

\* np.py:369-372, 414-416: every slot is assigned, and Marr is returned
Fill ==
    /\ pc = "fill"
    /\ Marr' = [Marr EXCEPT !.data =
                  [t \in DOMAIN Marr.data |->
                      Assigned(arr, Len(bc), t, Marr.dtype)]]
    /\ result' = Marr'
    /\ pc' = "returned"
    /\ trace' = Append(trace, "fill")
    /\ UNCHANGED <<fn, arg, kwdtype, arr, Nrows, Ncols, vals, dtype, mlist,
                   idx, bc, calls, err>>

(* ---------------------------- specification --------------------------- *)

Next ==
    \/ MatrixStackId
    \/ MatrixConvert
    \/ VectorConvert
    \/ Promote
    \/ CallBroadcastShapes
    \/ BcInit
    \/ BcFirst
    \/ BcRest
    \/ BcReturn
    \/ Shortcut
    \/ Alloc
    \/ Fill

Spec == Init /\ [][Next]_vars


(* ------------------- reference notions of the claims ------------------ *)

\* two shapes disagree: at some right-aligned position both have a size,
\* the sizes differ and neither is 1
Disagree(a, b) ==
    \E k \in 1 .. Min(Len(a), Len(b)) :
        LET x == a[Len(a) - k + 1]
            y == b[Len(b) - k + 1]
        IN  x # y /\ x # 1 /\ y # 1

\* the broadcast of two shapes, None when they disagree or one is None
Pairwise(a, b) ==
    IF a = None \/ b = None THEN None
    ELSE IF Disagree(a, b) THEN None
    ELSE LET rank == Max(Len(a), Len(b))
             at(s, p) == IF p > rank - Len(s) THEN s[p - (rank - Len(s))] ELSE 1
         IN  [p \in 1 .. rank |-> IF at(a, p) = 1 THEN at(b, p) ELSE at(a, p)]

\* the pairwise left fold over the first n shapes of a non-empty list
RECURSIVE FoldShapes(_, _)
FoldShapes(shapes, n) ==
    IF n = 1 THEN shapes[1]
    ELSE Pairwise(FoldShapes(shapes, n - 1), shapes[n])

ShapesOf(l) == [i \in 1 .. Len(l) |-> AsArray(l[i]).shape]

\* the unbounded broadcast of the shapes of a non-empty list of items
Unbounded(l) == FoldShapes(ShapesOf(l), Len(l))

\* some two items of the list have shapes that disagree
Mismatched(l) ==
    LET shapes == {AsArray(l[i]).shape : i \in 1 .. Len(l)}
    IN  \E a \in shapes : \E b \in shapes : Disagree(a, b)

Stackers == {"vector_stack", "matrix_stack", "matrix_stack_id"}

\* the container is a list (vector_stack) or rows of one common length
Rectangular ==
    fn = "vector_stack"
        \/ (Len(arr) > 0 /\ \A i \in 1 .. Len(arr) : Len(arr[i]) = Len(arr[1]))

\* the items of the container the stacker works on, row after row
ItemsOf == IF fn = "vector_stack" THEN arr ELSE Flatten(arr)

\* the loop of broadcast_shapes has ended without an exception
LoopEnded == pc = "bc_loop" /\ idx >= Len(mlist)

(* ------------------------------- claims ------------------------------- *)

\* C1: for a non-empty list with mutually broadcastable shapes, of any
\* length, the windowed loop of broadcast_shapes raises nothing and ends with
\* exactly the shape the pairwise left fold over all the shapes gives; that
\* shape is what broadcast_shapes returns.
C1_ChunkingTransparent ==
    /\ (LoopEnded /\ Len(mlist) > 0) => bc = Unbounded(mlist)
    /\ (fn = "broadcast_shapes" /\ pc = "returned" /\ Len(arg) > 0)
          => result = [kind |-> "shape", shape |-> Unbounded(arg)]
    /\ (fn = "broadcast_shapes" /\ pc = "raised") => Unbounded(arg) = None

\* a call over three windows whose last window widened the running shape
C1_Witness ==
    /\ fn = "broadcast_shapes"
    /\ pc = "returned"
    /\ Len(calls) = 3
    /\ calls[3].withBc
    /\ calls[3].bc # result.shape
    /\ Len(result.shape) = 2

C3_DtypeHonoured ==
    (fn \in Stackers /\ pc = "returned" /\ kwdtype # "None")
        => result.dtype = kwdtype

\* C4: a matrix_stack argument with a row whose length differs from the
\* first row's fails with the assertion of line 354, before np.result_type
\* and broadcast_shapes are called and with no output array allocated.
C4_RaggedFailsFirst ==
    (fn = "matrix_stack" /\ Len(arr) > 0 /\ ~Rectangular /\ pc # "convert") =>
        /\ pc = "raised"
        /\ err = "AssertionError"
        /\ \A k \in 1 .. Len(trace) :
              trace[k] \notin {"result_type", "broadcast_shapes", "np.empty",
                               "np.array", "fill"}
        /\ calls = <<>>
        /\ Marr = NoArray
        /\ result = NoArray

\* a ragged argument whose odd row is longer than the first, after the fail
C4_Witness ==
    /\ fn = "matrix_stack"
    /\ err = "AssertionError"
    /\ \E i \in 2 .. Len(arr) :
          Len(arr[i]) > Len(arr[1]) /\ \A k \in 1 .. i - 1 : Len(arr[k]) = Len(arr[1])

\* C5: when two items' shapes disagree, wherever they sit, the loop of
\* broadcast_shapes never ends normally: the call raises the shape-mismatch
\* error, and a stacker (given a rectangular argument) raises it with no
\* output array allocated, no slot written and nothing returned.
C5_MismatchFails ==
    /\ (pc \in {"bc_loop", "shortcut", "alloc", "fill", "returned"}
            /\ Mismatched(mlist))
          => (pc = "bc_loop" /\ idx < Len(mlist))
    /\ (pc = "raised" /\ Mismatched(mlist)) =>
          /\ err = "ValueError: shape mismatch"
          /\ Marr = NoArray
          /\ result = NoArray
          /\ \A k \in 1 .. Len(trace) :
                trace[k] \notin {"np.empty", "np.array", "fill"}

\* a stacker that failed on two items of different windows: the third call
\* of np.broadcast_shapes is the first to see the disagreement
C5_Witness ==
    /\ fn \in Stackers
    /\ pc = "raised"
    /\ err = "ValueError: shape mismatch"
    /\ Len(calls) = 3

\* C6: a stacker given a non-empty rectangular argument whose items are all
\* scalars returns an array of shape exactly (N,) or (R, C) whose entries are
\* the items' values.
C6_ScalarsGivePlainArray ==
    (fn \in {"vector_stack", "matrix_stack"} /\ Rectangular
        /\ Len(ItemsOf) > 0
        /\ \A i \in 1 .. Len(ItemsOf) : AsArray(ItemsOf[i]).shape = <<>>)
    =>  /\ pc # "raised"
        /\ (pc = "returned") =>
              (/\ result.kind = "array"
               /\ result.shape
                     = (IF fn = "vector_stack" THEN <<Len(arr)>>
                        ELSE <<Len(arr), Len(arr[1])>>)
               /\ \A t \in Indices(result.shape) :
                     result.data[t] = AsArray(ItemAt(arr, t)).data[<<>>])

\* a 2 x 2 or larger matrix of scalars that are not all the same, returned
C6_Witness ==
    /\ fn = "matrix_stack"
    /\ pc = "returned"
    /\ bc = <<>>
    /\ Len(arr) >= 2
    /\ Len(arr[1]) >= 2
    /\ arr[1][1] # arr[1][2]
    /\ result.shape = <<Len(arr), Len(arr[1])>>

\* C7: matrix_stack_id on N >= 1 broadcastable diagonal items runs
\* matrix_stack on the N x N container with item i at (i, i) and the literal
\* 0 elsewhere, and (dtype inferred) returns an array of shape B + (N, N)
\* with item i broadcast into B at [..., i, i] and 0 at every other slot.
C7_IdentityStack ==
    (fn = "matrix_stack_id" /\ pc # "build" /\ Len(arg) > 0) =>
        /\ Len(arr) = Len(arg)
        /\ \A i \in 1 .. Len(arg) :
              /\ Len(arr[i]) = Len(arg)
              /\ \A j \in 1 .. Len(arg) :
                    arr[i][j] = (IF i = j THEN arg[i] ELSE [py |-> 0])
        /\ (pc = "raised") => Unbounded(arg) = None
        /\ (pc = "returned" /\ kwdtype = "None") =>
              LET B == Unbounded(arg)
                  n == Len(arg)
              IN  /\ result.shape = B \o <<n, n>>
                  /\ \A i \in 1 .. n : \A j \in 1 .. n : \A b \in Indices(B) :
                        result.data[b \o <<i - 1, j - 1>>]
                            = (IF i = j THEN BroadcastAt(AsArray(arg[i]), b)
                               ELSE [re |-> 0, im |-> 0])

\* a returned identity stack of two or more different items with leading axes
C7_Witness ==
    /\ fn = "matrix_stack_id"
    /\ pc = "returned"
    /\ kwdtype = "None"
    /\ Len(arg) >= 2
    /\ arg[1] # arg[Len(arg)]
    /\ Len(bc) = 2

\* the argument of a stacker holds no item: no row, rows of no item, or an
\* empty list
EmptyArgument ==
    /\ fn \in {"vector_stack", "matrix_stack"}
    /\ \/ Len(arg) = 0
       \/ fn = "matrix_stack" /\ \A i \in 1 .. Len(arg) : Len(arg[i]) = 0

\* C8: a stacker given an empty argument never returns, with the dtype
\* inferred or given: the call ends, and ends with an exception.
C8_EmptyInputFails ==
    EmptyArgument =>
        /\ pc # "returned"
        /\ result = NoArray
        /\ Marr = NoArray
        /\ (~ENABLED Next) => (pc = "raised" /\ err # "none")

\* vector_stack([]) with an explicit dtype, after it failed
C8_Witness ==
    /\ fn = "vector_stack"
    /\ Len(arg) = 0
    /\ kwdtype # "None"
    /\ pc = "raised"

\* C9: broadcast_shapes of an empty list returns the empty shape ().
C9_EmptyListGivesEmptyShape ==
    (fn = "broadcast_shapes" /\ Len(arg) = 0 /\ pc = "returned")
        => result = [kind |-> "shape", shape |-> <<>>]

\* the calls of np.broadcast_shapes so far: at most 32 operands each; bc is
\* left out exactly on the first pass and on a pass entered with bc = (); the
\* windows start at 0 and follow each other; idx steps by the window's width
\* (byWidth) or by the number of items taken
WindowsWithin(byWidth) ==
    \A i \in 1 .. Len(calls) :
        LET c == calls[i]
            width == IF c.withBc THEN WindowRest ELSE Window
        IN  /\ c.nargs <= Window
            /\ c.withBc = ~(c.idx = 0 \/ c.bc = <<>>)
            /\ c.taken = Min(width, Len(mlist) - c.idx)
            /\ c.nargs = c.taken + (IF c.withBc THEN 1 ELSE 0)
            /\ c.next = c.idx + (IF byWidth THEN width ELSE c.taken)
            /\ c.idx = (IF i = 1 THEN 0 ELSE calls[i - 1].next)

\* C10 as stated: ... and the index advances by exactly the number of input
\* slots taken.
C10_AdvanceByTaken == WindowsWithin(FALSE)

\* C10 as amended: every call of np.broadcast_shapes has at most 32 operands
\* counting bc; the first pass and a pass entered with bc = () take up to 32
\* items without bc, every other pass bc and up to 31 items (fewer only when
\* fewer remain); the index advances by the full width of the window, 32 or
\* 31, whatever the number of items taken, so the windows are consecutive
\* and disjoint.
C10_AdvanceByWidth == WindowsWithin(TRUE)

\* three passes, the second entered with bc = () and so without bc
C10_Witness ==
    /\ Len(calls) = 3
    /\ ~calls[2].withBc
    /\ calls[3].idx = 2 * Window
    /\ calls[3].taken = 1

=============================================================================
